---- MODULE Spec2Model ----
(***************************************************************************)
(* A model of the eCourts scraper: the ECourtsScraper object               *)
(* (ecourts_scraper.py), its command line (main) and the Flask endpoints   *)
(* that share one scraper (web_interface.py), together with the files      *)
(* they write.                                                             *)
(*                                                                         *)
(* Python values are modelled as follows.                                  *)
(*   - A value a caller passes in (a CLI option, a JSON member, a CSV      *)
(*     cell) is a record [t, s]: t is its type ("none", "str", "list")     *)
(*     and s, for a str, its text as a sequence of atoms.  An atom is      *)
(*     either one of the characters the csv module treats specially        *)
(*     (comma, double quote, CR, LF) or a run of ordinary text.            *)
(*   - The literal dicts of the source (the demo cases, the placeholder    *)
(*     case) are TLA+ records whose fields hold the source's literals;     *)
(*     the empty dict {} is the function with the empty domain.            *)
(*   - A cause-list row keeps its key order, which decides the CSV         *)
(*     columns: it is a sequence of <<key, value>> pairs.                  *)
(***************************************************************************)
EXTENDS Integers, Sequences, FiniteSets, TLC

VARIABLES
    demo_cases,   \* ECourtsScraper.demo_cases of the one scraper object
    today,        \* the calendar date of the run, as a day number
    clock,        \* the wall clock in seconds (datetime.now() of the timestamps)
    fs,           \* the files: path -> [exists, data]
    pc,           \* pc[p]: where caller p is in its operation
    call,         \* call[p]: the operation caller p runs and its arguments
    loc,          \* loc[p]: the locals of the running operation
    ret,          \* ret[p]: what the operation returned (or the HTTP response)
    raised,       \* raised[p]: an except branch of the scraper ran (logger.error)
    readback,     \* what csv.DictReader reads from the file written last
    env,          \* the file system around the files: the directories that
                  \* exist, the paths open() is denied, whether the disk is full
    pdfs          \* the files download_case_pdf wrote: [dir, name, data]

vars == <<demo_cases, today, clock, fs, pc, call, loc, ret, raised, readback, env,
          pdfs>>

-----------------------------------------------------------------------------
(* Bounds of the model *)

MaxClock == 1
MaxRows == 2
\* the longest case_id given to download_case_pdf, in characters
MaxIdLen == 3

Procs == {1, 2}

-----------------------------------------------------------------------------
(* Python values *)

PyNone == [t |-> "none", s |-> <<>>]
Str(x) == [t |-> "str", s |-> IF x = "" THEN <<>> ELSE <<x>>]
StrOf(atoms) == [t |-> "str", s |-> atoms]
\* a non-empty JSON array such as ["x"]: truthy and unhashable
PyList == [t |-> "list", s |-> <<>>]

\* bool(v)
Truthy(v) == CASE v.t = "none" -> FALSE
               [] v.t = "str" -> v.s # <<>>
               [] OTHER -> TRUE

\* hash(v) succeeds
Hashable(v) == v.t # "list"

EmptyDict == [k \in {} |-> ""]

\* bool(d) of a dict
DictTruthy(d) == DOMAIN d # {}

-----------------------------------------------------------------------------
(* ECourtsScraper.__init__ : the demo dataset *)

DemoCases ==
    [k \in {"DLCT01-123456-2023", "MHMC02-654321-2022", "KLER03-111222-2021",
            "TNCH04-777888-2020", "RJJP05-333444-2019"} |->
      CASE k = "DLCT01-123456-2023" ->
             [cnr |-> "DLCT01-123456-2023", case_number |-> "12345/2023",
              case_title |-> "John Doe vs. Jane Smith",
              court_name |-> "Delhi High Court", case_type |-> "Civil",
              filing_date |-> "2023-01-15", status |-> "Pending",
              next_hearing |-> "2025-10-20", serial_number |-> "1",
              is_listed_today |-> TRUE, is_listed_tomorrow |-> FALSE]
        [] k = "MHMC02-654321-2022" ->
             [cnr |-> "MHMC02-654321-2022", case_number |-> "65432/2022",
              case_title |-> "ABC Pvt Ltd vs. XYZ Traders",
              court_name |-> "Mumbai City Civil Court", case_type |-> "Commercial",
              filing_date |-> "2022-06-10", status |-> "Pending",
              next_hearing |-> "2025-10-21", serial_number |-> "7",
              is_listed_today |-> FALSE, is_listed_tomorrow |-> TRUE]
        [] k = "KLER03-111222-2021" ->
             [cnr |-> "KLER03-111222-2021", case_number |-> "11122/2021",
              case_title |-> "State vs. Raman Nair",
              court_name |-> "Ernakulam District Court", case_type |-> "Criminal",
              filing_date |-> "2021-09-05", status |-> "Listed",
              next_hearing |-> "2025-10-15", serial_number |-> "15",
              is_listed_today |-> TRUE, is_listed_tomorrow |-> FALSE]
        [] k = "TNCH04-777888-2020" ->
             [cnr |-> "TNCH04-777888-2020", case_number |-> "77788/2020",
              case_title |-> "Mohan vs. Housing Board",
              court_name |-> "Chennai City Civil Court", case_type |-> "Civil",
              filing_date |-> "2020-11-20", status |-> "Adjourned",
              next_hearing |-> "2025-10-22", serial_number |-> "23",
              is_listed_today |-> FALSE, is_listed_tomorrow |-> TRUE]
        [] OTHER ->
             [cnr |-> "RJJP05-333444-2019", case_number |-> "33344/2019",
              case_title |-> "Pooja Sharma vs. RTO Jaipur",
              court_name |-> "Jaipur District Court",
              case_type |-> "Motor Accident Claims",
              filing_date |-> "2019-03-18", status |-> "For Hearing",
              next_hearing |-> "2025-10-16", serial_number |-> "3",
              is_listed_today |-> TRUE, is_listed_tomorrow |-> FALSE]]

\* cnr in self.demo_cases, for a hashable cnr
InCases(cases, cnr) ==
    cnr.t = "str" /\ Len(cnr.s) = 1 /\ cnr.s[1] \in DOMAIN cases

-----------------------------------------------------------------------------
(* The scraper's data-returning methods.  Each yields [val, raised]: the    *)
(* value returned and whether its except branch produced it.               *)

\* get_court_list: a list built anew at every call
get_court_list ==
    [val |-> << [code |-> "01", name |-> "Supreme Court of India",
                 type |-> "Supreme Court"],
                [code |-> "02", name |-> "Delhi High Court", type |-> "High Court"],
                [code |-> "03", name |-> "Mumbai High Court", type |-> "High Court"] >>,
     raised |-> FALSE]

\* A faulty variant of the lookup: every known CNR yields the first demo case.
search_case_by_cnr_first(cases, cnr) ==
    IF ~Hashable(cnr) THEN [val |-> EmptyDict, raised |-> TRUE]
    ELSE IF InCases(cases, cnr)
         THEN [val |-> cases["DLCT01-123456-2023"], raised |-> FALSE]
    ELSE [val |-> EmptyDict, raised |-> FALSE]

\* A faulty variant of the lookup: every known CNR yields the last demo case.
search_case_by_cnr_last(cases, cnr) ==
    IF ~Hashable(cnr) THEN [val |-> EmptyDict, raised |-> TRUE]
    ELSE IF InCases(cases, cnr)
         THEN [val |-> cases["RJJP05-333444-2019"], raised |-> FALSE]
    ELSE [val |-> EmptyDict, raised |-> FALSE]

\* search_case_by_cnr: the lookup hashes cnr, which raises TypeError for an
\* unhashable argument; the except branch returns {} as the miss does.
search_case_by_cnr(cases, cnr) ==
    IF ~Hashable(cnr) THEN [val |-> EmptyDict, raised |-> TRUE]
    ELSE IF InCases(cases, cnr) THEN [val |-> cases[cnr.s[1]], raised |-> FALSE]
    ELSE [val |-> EmptyDict, raised |-> FALSE]

\* A faulty variant of the placeholder record: listed today and tomorrow.
search_case_by_details_both(case_type, case_number, year) ==
    [val |-> [case_type |-> case_type, case_number |-> case_number,
              year |-> year,
              case_title |-> <<"Sample ", case_type, " Case">>,
              court_name |-> "District Court", filing_date |-> "2023-01-15",
              status |-> "Pending", next_hearing |-> "2023-10-21",
              serial_number |-> "2",
              is_listed_today |-> TRUE, is_listed_tomorrow |-> TRUE],
     raised |-> FALSE]

\* search_case_by_details: the placeholder record, for any arguments
search_case_by_details(case_type, case_number, year) ==
    [val |-> [case_type |-> case_type, case_number |-> case_number,
              year |-> year,
              case_title |-> <<"Sample ", case_type, " Case">>,
              court_name |-> "District Court", filing_date |-> "2023-01-15",
              status |-> "Pending", next_hearing |-> "2023-10-21",
              serial_number |-> "2",
              is_listed_today |-> FALSE, is_listed_tomorrow |-> TRUE],
     raised |-> FALSE]

CauseRow(serial, number, title, petitioner, respondent, advocate, room, time) ==
    << <<"serial_number", Str(serial)>>, <<"case_number", Str(number)>>,
       <<"case_title", Str(title)>>, <<"petitioner", Str(petitioner)>>,
       <<"respondent", Str(respondent)>>, <<"advocate", Str(advocate)>>,
       <<"court_room", Str(room)>>, <<"time", Str(time)>> >>

\* A faulty variant of the list: the second row carries the first serial number.
get_cause_list_repeated(court_code, date) ==
    [val |-> << CauseRow("1", "12345/2023", "Sample Case 1", "John Doe",
                         "Jane Smith", "Advocate ABC", "Room 1", "10:00 AM"),
                CauseRow("1", "67890/2023", "Sample Case 2", "Alice Johnson",
                         "Bob Wilson", "Advocate XYZ", "Room 2", "11:00 AM") >>,
     raised |-> FALSE]

\* get_cause_list: the placeholder list, whatever the court code and date
get_cause_list(court_code, date) ==
    [val |-> << CauseRow("1", "12345/2023", "Sample Case 1", "John Doe",
                         "Jane Smith", "Advocate ABC", "Room 1", "10:00 AM"),
                CauseRow("2", "67890/2023", "Sample Case 2", "Alice Johnson",
                         "Bob Wilson", "Advocate XYZ", "Room 2", "11:00 AM"),
                CauseRow("3", "22222/2022", "Ravi Kumar vs. State", "Ravi Kumar",
                         "State", "Adv. Mehta", "Room 3", "11:30 AM"),
                CauseRow("4", "33333/2021", "Sita Devi vs. Nagar Nigam",
                         "Sita Devi", "Nagar Nigam", "Adv. Rao", "Room 4",
                         "12:00 PM"),
                CauseRow("5", "44444/2020", "Om Prakash vs. Insurance Co.",
                         "Om Prakash", "National Insurance", "Adv. Khan",
                         "Room 5", "12:30 PM") >>,
     raised |-> FALSE]

-----------------------------------------------------------------------------
(* csv.DictWriter, as save_cause_list_csv uses it: the excel dialect,       *)
(* QUOTE_MINIMAL, line terminator CR LF, restval '', extrasaction 'raise'.  *)

Specials == {",", "\"", "\r", "\n"}

\* the text of a dict key (a str)
KeyText(k) == IF k = "" THEN <<>> ELSE <<k>>

\* what the writer emits for a cell: a str as it is, None as the empty text
CellText(v) == CASE v.t = "str" -> v.s
                 [] v.t = "none" -> <<>>
                 [] OTHER -> <<"['x']">>

RECURSIVE Doubled(_)
\* every quote character doubled
Doubled(text) ==
    IF text = <<>> THEN <<>>
    ELSE (IF Head(text) = "\"" THEN <<"\"", "\"">> ELSE <<Head(text)>>)
         \o Doubled(Tail(text))

\* A faulty variant of the writer's field: never quoted.
CsvField_unquoted(text, n) == text

\* one field of a record of n fields
CsvField(text, n) ==
    IF (\E i \in 1..Len(text) : text[i] \in Specials) \/ (text = <<>> /\ n = 1)
    THEN <<"\"">> \o Doubled(text) \o <<"\"">>
    ELSE text

RECURSIVE CsvJoin(_, _, _)
CsvJoin(texts, i, n) ==
    IF i > n THEN <<>>
    ELSE CsvField(texts[i], n) \o (IF i < n THEN <<",">> ELSE <<>>)
         \o CsvJoin(texts, i + 1, n)

\* writer.writerow(texts)
CsvRecord(texts) == CsvJoin(texts, 1, Len(texts)) \o <<"\r", "\n">>

\* the keys of a row, in order, and its value for a key
RowKeys(row) == [i \in 1..Len(row) |-> row[i][1]]
RowKeySet(row) == {row[i][1] : i \in 1..Len(row)}
RowHas(row, k) == k \in RowKeySet(row)
RowGet(row, k) == row[CHOOSE i \in 1..Len(row) : row[i][1] = k][2]

\* DictWriter._dict_to_list: the cells of a row in column order
DictToList(fieldnames, row) ==
    [i \in 1..Len(fieldnames) |->
        IF RowHas(row, fieldnames[i]) THEN CellText(RowGet(row, fieldnames[i]))
        ELSE <<>>]

\* a row with a key that is no column makes writerows raise ValueError
WrongFields(fieldnames, row) ==
    RowKeySet(row) \ {fieldnames[i] : i \in 1..Len(fieldnames)} # {}

RECURSIVE WriteRows(_, _, _)
\* writer.writerows: [text, ok]; the rows before a bad one are written
WriteRows(fieldnames, rows, i) ==
    IF i > Len(rows) THEN [text |-> <<>>, ok |-> TRUE]
    ELSE IF WrongFields(fieldnames, rows[i]) THEN [text |-> <<>>, ok |-> FALSE]
    ELSE LET rest == WriteRows(fieldnames, rows, i + 1)
         IN  [text |-> CsvRecord(DictToList(fieldnames, rows[i])) \o rest.text,
              ok |-> rest.ok]

\* the body of the with block of save_cause_list_csv: what reaches the file
\* and whether the block ended without an exception
CsvWrite(cause_list) ==
    LET fieldnames == RowKeys(cause_list[1])
        header == CsvRecord([i \in 1..Len(fieldnames) |-> KeyText(fieldnames[i])])
        body == WriteRows(fieldnames, cause_list, 1)
    IN  [text |-> header \o body.text, ok |-> body.ok]

-----------------------------------------------------------------------------
(* csv.DictReader over a file opened with newline='': the reader of the     *)
(* standard library, non-strict.                                           *)

EOL == "<EOL>"

PStart == [state |-> "START_RECORD", field |-> <<>>, fields |-> <<>>, rows |-> <<>>]

SaveField(st) == [st EXCEPT !.fields = Append(@, st.field), !.field = <<>>]
AddChar(st, c) == [st EXCEPT !.field = Append(@, c)]
AfterEnd(c) == IF c = EOL THEN "START_RECORD" ELSE "EAT_CRNL"
IsEnd(c) == c \in {"\n", "\r", EOL}

\* parse_process_char
PChar(st, c) ==
    LET startField ==
          IF IsEnd(c) THEN [SaveField(st) EXCEPT !.state = AfterEnd(c)]
          ELSE IF c = "\"" THEN [st EXCEPT !.state = "IN_QUOTED_FIELD"]
          ELSE IF c = "," THEN [SaveField(st) EXCEPT !.state = "START_FIELD"]
          ELSE [AddChar(st, c) EXCEPT !.state = "IN_FIELD"]
    IN
    CASE st.state = "START_RECORD" ->
           IF c = EOL THEN st
           ELSE IF c \in {"\n", "\r"} THEN [st EXCEPT !.state = "EAT_CRNL"]
           ELSE startField
      [] st.state = "START_FIELD" -> startField
      [] st.state = "IN_FIELD" ->
           IF IsEnd(c) THEN [SaveField(st) EXCEPT !.state = AfterEnd(c)]
           ELSE IF c = "," THEN [SaveField(st) EXCEPT !.state = "START_FIELD"]
           ELSE AddChar(st, c)
      [] st.state = "IN_QUOTED_FIELD" ->
           IF c = EOL THEN st
           ELSE IF c = "\"" THEN [st EXCEPT !.state = "QUOTE_IN_QUOTED_FIELD"]
           ELSE AddChar(st, c)
      [] st.state = "QUOTE_IN_QUOTED_FIELD" ->
           IF c = "\"" THEN [AddChar(st, c) EXCEPT !.state = "IN_QUOTED_FIELD"]
           ELSE IF c = "," THEN [SaveField(st) EXCEPT !.state = "START_FIELD"]
           ELSE IF IsEnd(c) THEN [SaveField(st) EXCEPT !.state = AfterEnd(c)]
           ELSE [AddChar(st, c) EXCEPT !.state = "IN_FIELD"]
      [] OTHER ->  \* EAT_CRNL
           IF c = EOL THEN [st EXCEPT !.state = "START_RECORD"] ELSE st

\* Reader.__next__ returns the fields once a line ends in START_RECORD
EmitRecord(st) ==
    IF st.state = "START_RECORD"
    THEN [st EXCEPT !.rows = Append(@, st.fields), !.fields = <<>>]
    ELSE st

\* One character of the file.  The file is read line by line: a line ends
\* after LF, after a CR that no LF follows, or at the end of the file, and
\* the reader then sees the end of the line.
ParseAt(text, i, st) ==
    LET c == text[i]
        st1 == PChar(st, c)
        lineEnd == \/ c = "\n"
                   \/ c = "\r" /\ ~(i < Len(text) /\ text[i + 1] = "\n")
                   \/ i = Len(text)
    IN  IF lineEnd THEN EmitRecord(PChar(st1, EOL)) ELSE st1

RECURSIVE ParseRange(_, _, _, _)
\* the characters lo..hi in their order, from the reader state st: the state
\* after the first half is computed, then the second half runs from it
ParseRange(text, lo, hi, st) ==
    IF lo > hi THEN st
    ELSE IF lo = hi THEN ParseAt(text, lo, st)
    ELSE LET mid == (lo + hi) \div 2
             left == {ParseRange(text, lo, mid, st)}
         IN  CHOOSE r \in {ParseRange(text, mid + 1, hi, l) : l \in left} : TRUE

\* csv.reader: the records of the text; at the end of input a pending quoted
\* field is returned as it stands
CsvReader(text) ==
    LET st == ParseRange(text, 1, Len(text), PStart)
    IN  IF st.field # <<>> \/ st.state = "IN_QUOTED_FIELD"
        THEN Append(st.rows, Append(st.fields, st.field))
        ELSE st.rows

RECURSIVE NonBlank(_)
\* DictReader skips the records that are []
NonBlank(rows) ==
    IF rows = <<>> THEN <<>>
    ELSE (IF Head(rows) = <<>> THEN <<>> ELSE <<Head(rows)>>) \o NonBlank(Tail(rows))

\* DictReader: [fieldnames, rows]; a row is the pairs <<column text, value>>
\* of dict(zip(fieldnames, record)), a short record filled with None (restval)
\* and the surplus of a long one dropped into the restkey, which no column names
DictReader(text) ==
    LET recs == CsvReader(text)
        names == IF recs = <<>> THEN <<>> ELSE Head(recs)
        data == IF recs = <<>> THEN <<>> ELSE NonBlank(Tail(recs))
    IN  [fieldnames |-> names,
         rows |-> [r \in 1..Len(data) |->
                     [i \in 1..Len(names) |->
                        <<names[i], IF i <= Len(data[r]) THEN StrOf(data[r][i])
                                    ELSE PyNone>>]],
         surplus |-> \E r \in 1..Len(data) : Len(data[r]) > Len(names)]

-----------------------------------------------------------------------------
(* Files.  A path is [dir, name, ts]: ts is the second of the timestamp in  *)
(* a generated name and -1 in a fixed one.  NoFile stands for the empty    *)
(* string the writers return when they fail or write nothing.              *)

OutputDirs == {"output", "test_output"}

NoFile == [dir |-> "", name |-> "", ts |-> -1]
CliCsvPath(d) == [dir |-> d, name |-> "cause_list.csv", ts |-> -1]
CliJsonPath(d) == [dir |-> d, name |-> "results.json", ts |-> -1]
\* f"cause_list_{timestamp}.csv", timestamp = now to the second
StampedCsvPath(t) == [dir |-> "", name |-> "cause_list_%Y%m%d_%H%M%S.csv", ts |-> t]
TestCsvPath == [dir |-> "", name |-> "test_cause_list.csv", ts |-> -1]
\* f"ecourts_results_{timestamp}.json"
StampedJsonPath(t) ==
    [dir |-> "", name |-> "ecourts_results_%Y%m%d_%H%M%S.json", ts |-> t]
TestJsonPath == [dir |-> "", name |-> "test_output.json", ts |-> -1]
\* the program's own file in the directory the web service is started in
SourcePath == [dir |-> "", name |-> "web_interface.py", ts |-> -1]
SourceData == [exists |-> TRUE, data |-> <<"app = Flask(__name__)">>]

AllPaths ==
    {CliCsvPath(d) : d \in OutputDirs} \cup {CliJsonPath(d) : d \in OutputDirs}
    \cup {StampedCsvPath(t) : t \in 0..MaxClock} \cup {TestCsvPath}
    \cup {StampedJsonPath(t) : t \in 0..MaxClock} \cup {TestJsonPath}
    \cup {SourcePath}

NoData == [exists |-> FALSE, data |-> <<>>]

\* The environment in which nothing goes wrong: only the working directory
\* exists, every path in it may be written, the disk has room.
NoFaults == [dirs |-> {""}, denied |-> {}, full |-> FALSE]

\* open(path, 'w') succeeds: the directory of the path exists
\* (FileNotFoundError otherwise) and the path may be written (PermissionError)
CanOpen(e, path) == path.dir \in e.dirs /\ path \notin e.denied

\* What of the buffered text reaches the file when the disk is full: the
\* flush at close raises OSError after none or a part of it was written.
PartialLengths(text) == {0, Len(text) \div 2}

\* open(path, 'w'): the file is created or truncated
OpenForWrite(files, path) == [files EXCEPT ![path] = [exists |-> TRUE, data |-> <<>>]]

\* The buffered text reaches the file when the with block closes it: written
\* at the descriptor's own offset 0, over whatever the file holds by then.
Overwrite(old, text) ==
    IF Len(old) <= Len(text) THEN text
    ELSE text \o SubSeq(old, Len(text) + 1, Len(old))

FlushAndClose(files, path, text) ==
    [files EXCEPT ![path] = [exists |-> TRUE, data |-> Overwrite(files[path].data, text)]]

-----------------------------------------------------------------------------
(* json.dump(results, f, indent=2) as a sequence of tokens *)

CnrRecordFields ==
    <<"cnr", "case_number", "case_title", "court_name", "case_type", "filing_date",
      "status", "next_hearing", "serial_number", "is_listed_today",
      "is_listed_tomorrow">>
DetailsRecordFields ==
    <<"case_type", "case_number", "year", "case_title", "court_name", "filing_date",
      "status", "next_hearing", "serial_number", "is_listed_today",
      "is_listed_tomorrow">>

JsonBool(b) == IF b THEN "true" ELSE "false"
JsonValue(v) == IF v.t = "none" THEN <<"null">> ELSE <<"\"">> \o v.s \o <<"\"">>

\* a case record: the demo records hold literals, the placeholder record
\* holds the caller's arguments in case_type, case_number and year
JsonCaseField(rec, f) ==
    <<f, ":">> \o
    (IF f \in {"is_listed_today", "is_listed_tomorrow"} THEN <<JsonBool(rec[f])>>
     ELSE IF "cnr" \in DOMAIN rec THEN <<rec[f]>>
     ELSE IF f \in {"case_type", "case_number", "year"} THEN JsonValue(rec[f])
     ELSE IF f = "case_title"
          THEN <<rec[f][1]>> \o CellText(rec[f][2]) \o <<rec[f][3]>>
     ELSE <<rec[f]>>)

RECURSIVE JsonCaseFields(_, _, _)
JsonCaseFields(rec, fields, i) ==
    IF i > Len(fields) THEN <<>>
    ELSE JsonCaseField(rec, fields[i]) \o JsonCaseFields(rec, fields, i + 1)

JsonCase(rec) ==
    <<"{">> \o JsonCaseFields(rec, IF "cnr" \in DOMAIN rec THEN CnrRecordFields
                                    ELSE DetailsRecordFields, 1) \o <<"}">>

RECURSIVE JsonRowFields(_, _)
JsonRowFields(row, i) ==
    IF i > Len(row) THEN <<>>
    ELSE <<row[i][1], ":">> \o JsonValue(row[i][2]) \o JsonRowFields(row, i + 1)

RECURSIVE JsonRows(_, _)
JsonRows(rows, i) ==
    IF i > Len(rows) THEN <<>>
    ELSE <<"{">> \o JsonRowFields(rows[i], 1) \o <<"}">> \o JsonRows(rows, i + 1)

JsonPath(path) == <<path.dir, "/", path.name>>

\* The results dict of main: its keys in insertion order and their values.
NoResults == [keys |-> <<>>, case_search |-> EmptyDict, cause_list |-> <<>>,
              cause_list_file |-> NoFile]

\* A faulty variant of the member: its value without its name.
JsonMember_unnamed(results, k) ==
    CASE k = "case_search" -> JsonCase(results.case_search)
      [] k = "cause_list" -> <<"[">> \o JsonRows(results.cause_list, 1) \o <<"]">>
      [] OTHER -> JsonPath(results.cause_list_file)

JsonMember(results, k) ==
    <<k, ":">> \o
    (CASE k = "case_search" -> JsonCase(results.case_search)
       [] k = "cause_list" -> <<"[">> \o JsonRows(results.cause_list, 1) \o <<"]">>
       [] OTHER -> JsonPath(results.cause_list_file))

RECURSIVE JsonMembers(_, _)
JsonMembers(results, i) ==
    IF i > Len(results.keys) THEN <<>>
    ELSE JsonMember(results, results.keys[i]) \o JsonMembers(results, i + 1)

JsonDump(results) == <<"{">> \o JsonMembers(results, 1) \o <<"}">>

-----------------------------------------------------------------------------
(* The Flask endpoints.  A response is [status, keys, ...]: keys are the    *)
(* members of the JSON body, the other fields their values.                *)

OkData(d) ==
    [status |-> 200, keys |-> {"success", "data"}, success |-> TRUE, data |-> d,
     message |-> "", error |-> "", filename |-> NoFile]
OkFile(d, f) ==
    [status |-> 200, keys |-> {"success", "data", "filename"}, success |-> TRUE,
     data |-> d, message |-> "", error |-> "", filename |-> f]
NotOk(m) ==
    [status |-> 200, keys |-> {"success", "message"}, success |-> FALSE,
     data |-> EmptyDict, message |-> m, error |-> "", filename |-> NoFile]
ErrorBody(code, e) ==
    [status |-> code, keys |-> {"error"}, success |-> FALSE, data |-> EmptyDict,
     message |-> "", error |-> e, filename |-> NoFile]
\* send_file(filename, as_attachment=True): the file's content, not JSON
FileBody(path, content) ==
    [status |-> 200, keys |-> {}, attachment |-> path, content |-> content]

\* A faulty variant of the answer: a miss answered without its message.
SearchAnswer_nomessage(r) ==
    IF DictTruthy(r.val) THEN OkData(r.val)
    ELSE [NotOk("") EXCEPT !.keys = {"success"}]

\* if result: ... else: ... at the end of search_case
SearchAnswer(r) ==
    IF DictTruthy(r.val) THEN OkData(r.val) ELSE NotOk("Case not found")

\* A faulty variant of POST /search: the CNR search without the check of cnr.
search_case_unchecked(cases, body) ==
    IF ~body.is_object
    THEN [resp |-> ErrorBody(500, "'NoneType' object has no attribute 'get'"),
          raised |-> FALSE, called |-> "none"]
    ELSE IF body.search_type = Str("cnr")
    THEN LET r == search_case_by_cnr(cases, body.cnr)
         IN  [resp |-> SearchAnswer(r), raised |-> r.raised,
              called |-> "search_case_by_cnr"]
    ELSE IF body.search_type = Str("details")
    THEN IF ~(Truthy(body.case_type) /\ Truthy(body.case_number) /\ Truthy(body.year))
         THEN [resp |-> ErrorBody(400, "All case details are required"),
               raised |-> FALSE, called |-> "none"]
         ELSE LET r == search_case_by_details(body.case_type, body.case_number,
                                              body.year)
              IN  [resp |-> SearchAnswer(r), raised |-> r.raised,
                   called |-> "search_case_by_details"]
    ELSE [resp |-> ErrorBody(400, "Invalid search type"), raised |-> FALSE,
          called |-> "none"]

\* POST /search.  body.is_object is false for a JSON body that is no object,
\* on which data.get raises inside the try.  Yields [resp, raised, called].
search_case(cases, body) ==
    IF ~body.is_object
    THEN [resp |-> ErrorBody(500, "'NoneType' object has no attribute 'get'"),
          raised |-> FALSE, called |-> "none"]
    ELSE IF body.search_type = Str("cnr")
    THEN IF ~Truthy(body.cnr)
         THEN [resp |-> ErrorBody(400, "CNR is required"), raised |-> FALSE,
               called |-> "none"]
         ELSE LET r == search_case_by_cnr(cases, body.cnr)
              IN  [resp |-> SearchAnswer(r), raised |-> r.raised,
                   called |-> "search_case_by_cnr"]
    ELSE IF body.search_type = Str("details")
    THEN IF ~(Truthy(body.case_type) /\ Truthy(body.case_number) /\ Truthy(body.year))
         THEN [resp |-> ErrorBody(400, "All case details are required"),
               raised |-> FALSE, called |-> "none"]
         ELSE LET r == search_case_by_details(body.case_type, body.case_number,
                                              body.year)
              IN  [resp |-> SearchAnswer(r), raised |-> r.raised,
                   called |-> "search_case_by_details"]
    ELSE [resp |-> ErrorBody(400, "Invalid search type"), raised |-> FALSE,
          called |-> "none"]

-----------------------------------------------------------------------------
(* Calendar dates, and the inputs the callers draw from *)

\* the day number of the civil date y-m-d (days since 1970-01-01)
DaysFromCivil(y, m, d) ==
    LET yy == IF m <= 2 THEN y - 1 ELSE y
        era == yy \div 400
        yoe == yy - era * 400
        doy == (153 * (IF m > 2 THEN m - 3 ELSE m + 9) + 2) \div 5 + d - 1
        doe == yoe * 365 + yoe \div 4 - yoe \div 100 + doy
    IN  era * 146097 + doe - 719468

\* the dates on which the run may take place
RunDates == {DaysFromCivil(2025, 10, 15), DaysFromCivil(2025, 10, 20)}

CnrInputs ==
    {PyNone, Str(""), PyList, Str("TEST123456789")}
    \cup {Str(k) : k \in DOMAIN DemoCases}

CaseTypeInputs == {PyNone, Str(""), Str("Civil")}
CaseNumberInputs == {PyNone, Str(""), Str("12345")}
YearInputs == {PyNone, Str(""), Str("2023")}
CourtCodes == {Str("01"), Str("02")}
DateInputs == {PyNone, Str("20/10/2025")}

\* JSON bodies of POST /search: a body that is no object, and objects with
\* the members the handler reads (an absent member reads as None)
Body(st, cnr, ct, cn, y) ==
    [is_object |-> TRUE, search_type |-> st, cnr |-> cnr, case_type |-> ct,
     case_number |-> cn, year |-> y]
SearchBodies ==
    {[Body(PyNone, PyNone, PyNone, PyNone, PyNone) EXCEPT !.is_object = FALSE]}
    \cup {Body(Str("cnr"), c, PyNone, PyNone, PyNone) : c \in CnrInputs}
    \cup {Body(Str("details"), PyNone, ct, cn, y) :
            ct \in CaseTypeInputs, cn \in CaseNumberInputs, y \in YearInputs}
    \cup {Body(st, Str("DLCT01-123456-2023"), PyNone, PyNone, PyNone) :
            st \in {PyNone, Str("bogus")}}

\* JSON bodies of POST /causelist
CauseBodies ==
    {[is_object |-> FALSE, court_code |-> PyNone, date |-> PyNone]}
    \cup {[is_object |-> TRUE, court_code |-> c, date |-> d] :
            c \in CourtCodes \cup {PyNone}, d \in DateInputs}

-----------------------------------------------------------------------------
(* The callers and their state *)

NoCall ==
    [op |-> "none", cnr |-> PyNone, case_type |-> PyNone, case_number |-> PyNone,
     year |-> PyNone, search_type |-> PyNone, is_object |-> TRUE,
     causelist |-> FALSE, court_code |-> PyNone, date |-> PyNone,
     output_dir |-> "", rows |-> <<>>, filename |-> NoFile, case_id |-> <<>>]

\* opened: open() returned a file.  Kept to compare with what the call
\* leaves: before, what the path held when open() was called; had_dir, whether
\* its directory existed then; io_error, whether open() or the close of the
\* file raised an OSError in this operation; modified, whether the caller
\* has assigned to a key of the record it was returned.
NoLoc == [results |-> NoResults, cause_list |-> <<>>, filename |-> NoFile,
          text |-> <<>>, ok |-> TRUE, csv_file |-> NoFile, json_file |-> NoFile,
          opened |-> FALSE, before |-> NoData, had_dir |-> TRUE,
          io_error |-> FALSE, modified |-> FALSE, calls |-> <<>>]

NoRet == EmptyDict

NoReadback == [done |-> FALSE, fieldnames |-> <<>>, rows |-> <<>>, surplus |-> FALSE]

\* the exit of main: the function returns normally on every path through its
\* try, with or without "All results saved" printed (saved)
MainExit(results, saved) ==
    [exit_code |-> 0, items |-> Len(results.keys), saved |-> saved]

\* the exit of a run that an exception outside the try ended
Uncaught == [exit_code |-> 1, items |-> 0, saved |-> FALSE]

\* results[k] = ... for a key not yet in the dict
WithKey(results, k) == [results EXCEPT !.keys = Append(@, k)]

\* a scraper just constructed, its callers idle, no file written yet
Start ==
    /\ demo_cases = DemoCases
    /\ today \in RunDates
    /\ clock = 0
    /\ fs = [path \in AllPaths |-> IF path = SourcePath THEN SourceData ELSE NoData]
    /\ pc = [p \in Procs |-> "idle"]
    /\ call = [p \in Procs |-> NoCall]
    /\ loc = [p \in Procs |-> NoLoc]
    /\ ret = [p \in Procs |-> NoRet]
    /\ raised = [p \in Procs |-> FALSE]
    /\ readback = NoReadback
    /\ pdfs = {}

Init == Start /\ env = NoFaults

\* an operation that touches no file ends in one step
Finish(p, c, r, rs) ==
    /\ pc' = [pc EXCEPT ![p] = "done"]
    /\ call' = [call EXCEPT ![p] = c]
    /\ ret' = [ret EXCEPT ![p] = r]
    /\ raised' = [raised EXCEPT ![p] = rs]
    /\ UNCHANGED <<pdfs, env, demo_cases, today, clock, fs, loc, readback>>

\* a direct call of scraper.get_court_list()
CallGetCourtList(p) ==
    /\ pc[p] = "idle"
    /\ Finish(p, [NoCall EXCEPT !.op = "get_court_list"], get_court_list.val,
              get_court_list.raised)

\* A faulty variant of the call: the scraper notes in its dataset that the
\* case was looked up.
CallSearchByCnr_noting(p, cnr) ==
    /\ pc[p] = "idle"
    /\ LET r == search_case_by_cnr(demo_cases, cnr)
       IN  /\ pc' = [pc EXCEPT ![p] = "done"]
           /\ call' = [call EXCEPT ![p] =
                          [NoCall EXCEPT !.op = "search_case_by_cnr", !.cnr = cnr]]
           /\ ret' = [ret EXCEPT ![p] = r.val]
           /\ raised' = [raised EXCEPT ![p] = r.raised]
           /\ demo_cases' = IF InCases(demo_cases, cnr)
                            THEN [demo_cases EXCEPT ![cnr.s[1]].status = "Listed"]
                            ELSE demo_cases
    /\ UNCHANGED <<pdfs, env, today, clock, fs, loc, readback>>

\* a direct call of scraper.search_case_by_cnr(cnr)
CallSearchByCnr(p, cnr) ==
    /\ pc[p] = "idle"
    /\ LET r == search_case_by_cnr(demo_cases, cnr)
       IN  Finish(p, [NoCall EXCEPT !.op = "search_case_by_cnr", !.cnr = cnr],
                  r.val, r.raised)

\* a direct call of scraper.search_case_by_details(case_type, case_number, year)
CallSearchByDetails(p, ct, cn, y) ==
    /\ pc[p] = "idle"
    /\ LET r == search_case_by_details(ct, cn, y)
       IN  Finish(p, [NoCall EXCEPT !.op = "search_case_by_details",
                                    !.case_type = ct, !.case_number = cn, !.year = y],
                  r.val, r.raised)

\* a direct call of scraper.get_cause_list(court_code, date)
CallGetCauseList(p, court, date) ==
    /\ pc[p] = "idle"
    /\ LET r == get_cause_list(court, date)
       IN  Finish(p, [NoCall EXCEPT !.op = "get_cause_list", !.court_code = court,
                                    !.date = date],
                  r.val, r.raised)

\* POST /search with the JSON body `body`
WebSearch(p, body) ==
    /\ pc[p] = "idle"
    /\ LET r == search_case(demo_cases, body)
       IN  /\ pc' = [pc EXCEPT ![p] = "done"]
           /\ call' = [call EXCEPT ![p] =
                         [NoCall EXCEPT !.op = "web_search",
                                        !.is_object = body.is_object,
                                        !.search_type = body.search_type,
                                        !.cnr = body.cnr,
                                        !.case_type = body.case_type,
                                        !.case_number = body.case_number,
                                        !.year = body.year]]
           /\ ret' = [ret EXCEPT ![p] = r.resp]
           /\ raised' = [raised EXCEPT ![p] = r.raised]
           /\ loc' = [loc EXCEPT ![p] =
                        [NoLoc EXCEPT !.calls = IF r.called = "none" THEN <<>>
                                                ELSE <<r.called>>]]
    /\ UNCHANGED <<pdfs, env, demo_cases, today, clock, fs, readback>>


\* the caller moves on to open(filename, 'w') of save_cause_list_csv
ToCsvOpen(p, c, l) ==
    /\ pc' = [pc EXCEPT ![p] = "csv_open"]
    /\ call' = [call EXCEPT ![p] = c]
    /\ loc' = [loc EXCEPT ![p] = l]
    /\ UNCHANGED <<pdfs, env, demo_cases, today, clock, fs, ret, raised, readback>>

\* a direct call of scraper.save_cause_list_csv(rows, filename); filename is
\* NoFile for None, and the name is then stamped with the current second.
\* An empty list returns "" before any file is opened.
SaveCsvStart(p, rows, filename) ==
    /\ pc[p] = "idle"
    /\ LET c == [NoCall EXCEPT !.op = "save_cause_list_csv", !.rows = rows,
                               !.filename = filename]
           f == IF filename = NoFile THEN StampedCsvPath(clock) ELSE filename
       IN  IF rows = <<>>
           THEN Finish(p, c, NoFile, FALSE)
           ELSE ToCsvOpen(p, c, [NoLoc EXCEPT !.cause_list = rows, !.filename = f])

\* POST /causelist: get_cause_list, then save_cause_list_csv(cause_list)
WebCauseList(p, body) ==
    /\ pc[p] = "idle"
    /\ LET c == [NoCall EXCEPT !.op = "web_causelist", !.is_object = body.is_object,
                               !.court_code = body.court_code, !.date = body.date]
           court == IF body.court_code = PyNone THEN Str("01") ELSE body.court_code
           r == get_cause_list(court, body.date)
       IN  IF ~body.is_object
           THEN Finish(p, c, ErrorBody(500, "'NoneType' object has no attribute 'get'"),
                       FALSE)
           ELSE IF r.val = <<>>
           THEN Finish(p, c, NotOk("No cause list found"), r.raised)
           ELSE ToCsvOpen(p, c, [NoLoc EXCEPT !.cause_list = r.val,
                                              !.filename = StampedCsvPath(clock)])

\* GET /download/<filename>: send_file of the file of that name in the
\* directory of the application, which is the directory the service was
\* started in and writes its CSV files to; a name with no file there makes
\* send_file raise, and the handler answers 500
WebDownload(p, path) ==
    /\ pc[p] = "idle"
    /\ path.dir = ""
    /\ LET c == [NoCall EXCEPT !.op = "web_download", !.filename = path]
       IN  IF fs[path].exists
           THEN Finish(p, c, FileBody(path, fs[path].data), FALSE)
           ELSE Finish(p, c, ErrorBody(500, "No such file or directory"), FALSE)

\* download_case_pdf.  A case_id is the sequence of its characters.
Letters ==
    {"A", "B", "C", "D", "E", "F", "G", "H", "I", "J", "K", "L", "M", "N", "O", "P",
     "Q", "R", "S", "T", "U", "V", "W", "X", "Y", "Z", "a", "b", "c", "d", "e", "f",
     "g", "h", "i", "j", "k", "l", "m", "n", "o", "p", "q", "r", "s", "t", "u", "v",
     "w", "x", "y", "z"}
Digits == {"0", "1", "2", "3", "4", "5", "6", "7", "8", "9"}
\* the characters the class [^A-Za-z0-9_-] does not match
SafeChars == Letters \cup Digits \cup {"_", "-"}

\* A faulty variant of the sanitizing: the case_id as it is.
Sanitize_asis(chars) == chars

RECURSIVE SanitizeFrom(_, _)
\* re.sub(r"[^A-Za-z0-9_-]+", "_", ...) from character i on: a character of
\* the class stays, a run of others becomes one "_"
SanitizeFrom(chars, i) ==
    IF i > Len(chars) THEN <<>>
    ELSE IF chars[i] \in SafeChars THEN <<chars[i]>> \o SanitizeFrom(chars, i + 1)
    ELSE IF i > 1 /\ chars[i - 1] \notin SafeChars THEN SanitizeFrom(chars, i + 1)
    ELSE <<"_">> \o SanitizeFrom(chars, i + 1)

\* safe_case_id
Sanitize(chars) == SanitizeFrom(chars, 1)

\* os.path.join(output_dir, f"case_{safe_case_id}.pdf")
PdfPath(dir, case_id) ==
    [dir |-> dir, name |-> <<"case_">> \o Sanitize(case_id) \o <<".pdf">>]
\* the empty string download_case_pdf returns from its except branch
NoPdf == [dir |-> "", name |-> <<>>]
PdfContent == <<"This is a placeholder PDF content">>

\* the name has a path separator: the file would lie in a directory below
\* (or, through "..", above) the one joined to it
HasSeparator(name) == \E i \in 1..Len(name) : name[i] = "/"

\* open(pdf_path, 'w') and the write: the files after n atoms got out
PdfWritten(path, n) ==
    {f \in pdfs : ~(f.dir = path.dir /\ f.name = path.name)}
    \cup {[dir |-> path.dir, name |-> path.name, data |-> SubSeq(PdfContent, 1, n)]}

\* a call of scraper.download_case_pdf(case_id, output_dir): makedirs (inside
\* the try), the sanitized name, open and write; any exception yields "".
\* No directory exists below output_dir, so a name with a separator cannot
\* be opened.
PdfDownload(p, case_id, dir) ==
    /\ pc[p] = "idle"
    /\ pc' = [pc EXCEPT ![p] = "done"]
    /\ call' = [call EXCEPT ![p] = [NoCall EXCEPT !.op = "download_case_pdf",
                                                  !.case_id = case_id,
                                                  !.output_dir = dir]]
    /\ LET path == PdfPath(dir, case_id)
           failed == [NoLoc EXCEPT !.io_error = TRUE]
       IN  IF dir \notin env.dirs /\ env.full
           THEN /\ env' = env
                /\ pdfs' = pdfs
                /\ loc' = [loc EXCEPT ![p] = [failed EXCEPT !.had_dir = FALSE]]
                /\ ret' = [ret EXCEPT ![p] = NoPdf]
                /\ raised' = [raised EXCEPT ![p] = TRUE]
           ELSE /\ env' = [env EXCEPT !.dirs = @ \cup {dir}]
                /\ IF HasSeparator(path.name)
                   THEN /\ pdfs' = pdfs
                        /\ loc' = [loc EXCEPT ![p] = failed]
                        /\ ret' = [ret EXCEPT ![p] = NoPdf]
                        /\ raised' = [raised EXCEPT ![p] = TRUE]
                   ELSE IF env.full
                   THEN /\ \E n \in PartialLengths(PdfContent) :
                             pdfs' = PdfWritten(path, n)
                        /\ loc' = [loc EXCEPT ![p] = [failed EXCEPT !.opened = TRUE]]
                        /\ ret' = [ret EXCEPT ![p] = NoPdf]
                        /\ raised' = [raised EXCEPT ![p] = TRUE]
                   ELSE /\ pdfs' = PdfWritten(path, Len(PdfContent))
                        /\ loc' = [loc EXCEPT ![p] = [NoLoc EXCEPT !.opened = TRUE]]
                        /\ ret' = [ret EXCEPT ![p] = path]
                        /\ raised' = [raised EXCEPT ![p] = FALSE]
    /\ UNCHANGED <<demo_cases, today, clock, fs, readback>>

\* the caller's clean-up after a download that returned a path of an
\* existing file: os.remove(pdf_path), os.rmdir of the directory
PdfCleanUp(p) ==
    /\ pc[p] = "done"
    /\ call[p].op = "download_case_pdf"
    /\ ret[p] # NoPdf
    /\ \E f \in pdfs : f.dir = ret[p].dir /\ f.name = ret[p].name
    /\ pdfs' = {f \in pdfs : ~(f.dir = ret[p].dir /\ f.name = ret[p].name)}
    /\ env' = [env EXCEPT !.dirs = @ \ {ret[p].dir}]
    /\ pc' = [pc EXCEPT ![p] = "idle"]
    /\ call' = [call EXCEPT ![p] = NoCall]
    /\ loc' = [loc EXCEPT ![p] = NoLoc]
    /\ ret' = [ret EXCEPT ![p] = NoRet]
    /\ raised' = [raised EXCEPT ![p] = FALSE]
    /\ UNCHANGED <<demo_cases, today, clock, fs, readback>>

\* a direct call of scraper.save_results(data, filename); filename is NoFile
\* for None, and the name is then stamped with the current second
SaveResultsStart(p, data, filename) ==
    /\ pc[p] = "idle"
    /\ pc' = [pc EXCEPT ![p] = "json_open"]
    /\ call' = [call EXCEPT ![p] = [NoCall EXCEPT !.op = "save_results",
                                                  !.filename = filename]]
    /\ loc' = [loc EXCEPT ![p] =
                 [NoLoc EXCEPT !.results = data,
                               !.filename = IF filename = NoFile
                                            THEN StampedJsonPath(clock)
                                            ELSE filename]]
    /\ UNCHANGED <<pdfs, env, demo_cases, today, clock, fs, ret, raised, readback>>

\* the method `name` is among the calls made
Calls(made, name) == \E i \in 1..Len(made) : made[i] = name

\* A faulty variant of main's branches: the details search as an if of its own.
MainCalls_both(cnr, ct, cn, y, causelist) ==
    (IF Truthy(cnr) THEN <<"search_case_by_cnr">> ELSE <<>>)
    \o (IF Truthy(ct) /\ Truthy(cn) /\ Truthy(y)
        THEN <<"search_case_by_details">> ELSE <<>>)
    \o (IF causelist THEN <<"get_cause_list">> ELSE <<>>)

\* the scraper methods main calls, in order: `if cnr:` the CNR search,
\* `elif case_type and case_number and year:` the details search, then
\* `if causelist:` the cause-list fetch
MainCalls(cnr, ct, cn, y, causelist) ==
    (IF Truthy(cnr) THEN <<"search_case_by_cnr">>
     ELSE IF Truthy(ct) /\ Truthy(cn) /\ Truthy(y)
          THEN <<"search_case_by_details">>
     ELSE <<>>)
    \o (IF causelist THEN <<"get_cause_list">> ELSE <<>>)

\* main up to its first file: os.makedirs(output_dir, exist_ok=True), which
\* is outside the try (an OSError of it ends the run with a traceback and
\* exit code 1), then the case search and the cause-list fetch
MainStart(p, cnr, ct, cn, y, causelist, court, dir) ==
    /\ pc[p] = "idle"
    /\ LET c == [NoCall EXCEPT !.op = "main", !.cnr = cnr, !.case_type = ct,
                               !.case_number = cn, !.year = y,
                               !.causelist = causelist, !.court_code = court,
                               !.output_dir = dir]
           made == MainCalls(cnr, ct, cn, y, causelist)
           sr == IF Calls(made, "search_case_by_cnr")
                 THEN search_case_by_cnr(demo_cases, cnr)
                 ELSE IF Calls(made, "search_case_by_details")
                      THEN search_case_by_details(ct, cn, y)
                 ELSE [val |-> EmptyDict, raised |-> FALSE]
           r1 == IF DictTruthy(sr.val)
                 THEN [WithKey(NoResults, "case_search") EXCEPT !.case_search = sr.val]
                 ELSE NoResults
           cl == get_cause_list(court, PyNone)
           fetched == Calls(made, "get_cause_list")
           r2 == IF fetched /\ cl.val # <<>>
                 THEN [WithKey(r1, "cause_list") EXCEPT !.cause_list = cl.val]
                 ELSE r1
       IN  /\ call' = [call EXCEPT ![p] = c]
           /\ IF dir \notin env.dirs /\ env.full
              THEN /\ env' = env
                   /\ raised' = raised
                   /\ pc' = [pc EXCEPT ![p] = "done"]
                   /\ loc' = [loc EXCEPT ![p] = NoLoc]
                   /\ ret' = [ret EXCEPT ![p] = Uncaught]
              ELSE /\ env' = [env EXCEPT !.dirs = @ \cup {dir}]
                   /\ raised' = [raised EXCEPT ![p] =
                                   sr.raised \/ (fetched /\ cl.raised)]
                   /\ IF fetched /\ cl.val # <<>>
                      THEN /\ pc' = [pc EXCEPT ![p] = "csv_open"]
                           /\ loc' = [loc EXCEPT ![p] =
                                        [NoLoc EXCEPT !.results = r2,
                                                      !.cause_list = cl.val,
                                                      !.filename = CliCsvPath(dir),
                                                      !.calls = made]]
                           /\ ret' = ret
                      ELSE IF r2.keys # <<>>
                      THEN /\ pc' = [pc EXCEPT ![p] = "json_open"]
                           /\ loc' = [loc EXCEPT ![p] =
                                        [NoLoc EXCEPT !.results = r2,
                                                      !.filename = CliJsonPath(dir),
                                                      !.calls = made]]
                           /\ ret' = ret
                      ELSE /\ pc' = [pc EXCEPT ![p] = "done"]
                           /\ loc' = [loc EXCEPT ![p] =
                                        [NoLoc EXCEPT !.results = r2,
                                                      !.calls = made]]
                           /\ ret' = [ret EXCEPT ![p] = MainExit(r2, FALSE)]
           /\ UNCHANGED <<pdfs, demo_cases, today, clock, fs, readback>>

\* with open(filename, 'w', ...) as f: the file is created or truncated and
\* the text the block writes is buffered; when open() raises, the file is
\* as it was and the method is on its way to its except branch
OpenAndBuffer(p, text, ok) ==
    LET path == loc[p].filename
    IN  IF CanOpen(env, path)
        THEN /\ fs' = OpenForWrite(fs, path)
             /\ loc' = [loc EXCEPT ![p] = [@ EXCEPT !.text = text, !.ok = ok,
                                                    !.opened = TRUE,
                                                    !.before = fs[path],
                                                    !.had_dir = TRUE]]
        ELSE /\ fs' = fs
             /\ loc' = [loc EXCEPT ![p] = [@ EXCEPT !.text = <<>>, !.ok = FALSE,
                                                    !.opened = FALSE,
                                                    !.before = fs[path],
                                                    !.had_dir = path.dir \in env.dirs,
                                                    !.io_error = TRUE]]

\* how much of the buffer the close of the with block gets into the file
FlushedLengths(p) ==
    IF loc[p].opened /\ env.full THEN PartialLengths(loc[p].text)
    ELSE {Len(loc[p].text)}

\* the with block ended without an exception
Saved(p) == loc[p].opened /\ loc[p].ok /\ ~env.full

\* the locals after the close: the flush of an open file raises on a full disk
AfterClose(p) == [loc[p] EXCEPT !.io_error = @ \/ (loc[p].opened /\ env.full)]

\* the files after the close that got n characters of the buffer out
Closed(p, n) ==
    IF loc[p].opened
    THEN FlushAndClose(fs, loc[p].filename, SubSeq(loc[p].text, 1, n))
    ELSE fs

\* save_cause_list_csv: open(filename, 'w', newline=''), and the writer fills
\* the buffer (header, then the rows up to one it rejects)
CsvOpen(p) ==
    /\ pc[p] = "csv_open"
    /\ LET w == CsvWrite(loc[p].cause_list)
       IN  OpenAndBuffer(p, w.text, w.ok)
    /\ pc' = [pc EXCEPT ![p] = "csv_close"]
    /\ UNCHANGED <<pdfs, env, demo_cases, today, clock, call, ret, raised, readback>>

\* save_cause_list_csv: the with block closes the file, and the method
\* returns the filename, or "" from its except branch; then the caller goes on
CsvClose(p) ==
    /\ pc[p] = "csv_close"
    /\ \E n \in FlushedLengths(p) : fs' = Closed(p, n)
    /\ raised' = [raised EXCEPT ![p] = @ \/ ~Saved(p)]
    /\ LET csv_file == IF Saved(p) THEN loc[p].filename ELSE NoFile
       IN  CASE call[p].op = "save_cause_list_csv" ->
                  /\ ret' = [ret EXCEPT ![p] = csv_file]
                  /\ pc' = [pc EXCEPT ![p] = "done"]
                  /\ loc' = [loc EXCEPT ![p] =
                               [AfterClose(p) EXCEPT !.csv_file = csv_file]]
             [] call[p].op = "web_causelist" ->
                  /\ ret' = [ret EXCEPT ![p] = OkFile(loc[p].cause_list, csv_file)]
                  /\ pc' = [pc EXCEPT ![p] = "done"]
                  /\ loc' = [loc EXCEPT ![p] =
                               [AfterClose(p) EXCEPT !.csv_file = csv_file]]
             [] OTHER ->  \* main
                  /\ ret' = ret
                  /\ pc' = [pc EXCEPT ![p] = "json_open"]
                  /\ loc' = [loc EXCEPT ![p] =
                               [AfterClose(p) EXCEPT !.results =
                                           IF csv_file # NoFile
                                           THEN [WithKey(@, "cause_list_file")
                                                   EXCEPT !.cause_list_file = csv_file]
                                           ELSE @,
                                         !.csv_file = csv_file,
                                         !.filename = CliJsonPath(call[p].output_dir)]]
    /\ UNCHANGED <<pdfs, env, demo_cases, today, clock, call, readback>>

\* save_results: open(filename, 'w'), and json.dump fills the buffer
JsonOpen(p) ==
    /\ pc[p] = "json_open"
    /\ OpenAndBuffer(p, JsonDump(loc[p].results), TRUE)
    /\ pc' = [pc EXCEPT ![p] = "json_close"]
    /\ UNCHANGED <<pdfs, env, demo_cases, today, clock, call, ret, raised, readback>>

\* save_results: the with block closes the file, and the method returns the
\* filename, or "" from its except branch; main prints "All results saved"
\* for a filename, and its summary either way
JsonClose(p) ==
    /\ pc[p] = "json_close"
    /\ \E n \in FlushedLengths(p) : fs' = Closed(p, n)
    /\ raised' = [raised EXCEPT ![p] = @ \/ ~Saved(p)]
    /\ LET json_file == IF Saved(p) THEN loc[p].filename ELSE NoFile
       IN  /\ ret' = [ret EXCEPT ![p] =
                        IF call[p].op = "save_results" THEN json_file
                        ELSE MainExit(loc[p].results, json_file # NoFile)]
           /\ loc' = [loc EXCEPT ![p] =
                        [AfterClose(p) EXCEPT !.json_file = json_file]]
    /\ pc' = [pc EXCEPT ![p] = "done"]
    /\ UNCHANGED <<pdfs, env, demo_cases, today, clock, call, readback>>

\* The caller assigns to a key of the case record it holds: r["status"] =
\* "Disposed".  search_case_by_cnr returned the dict that is the value of
\* demo_cases[cnr] itself (return self.demo_cases[cnr]), so the assignment
\* shows in the dataset and in every other reference to that dict;
\* search_case_by_details returned a dict of its own.
Modify(p) ==
    /\ pc[p] = "done"
    /\ call[p].op \in {"search_case_by_cnr", "search_case_by_details"}
    /\ DictTruthy(ret[p])
    /\ ~loc[p].modified
    /\ loc' = [loc EXCEPT ![p] = [@ EXCEPT !.modified = TRUE]]
    /\ IF call[p].op = "search_case_by_cnr"
       THEN LET k == call[p].cnr.s[1]
                shares(q) == /\ pc[q] = "done"
                             /\ call[q].op = "search_case_by_cnr"
                             /\ call[q].cnr = call[p].cnr
            IN  /\ demo_cases' = [demo_cases EXCEPT ![k].status = "Disposed"]
                /\ ret' = [q \in Procs |->
                             IF shares(q) THEN [ret[q] EXCEPT !.status = "Disposed"]
                             ELSE ret[q]]
       ELSE /\ demo_cases' = demo_cases
            /\ ret' = [ret EXCEPT ![p] = [@ EXCEPT !.status = "Disposed"]]
    /\ UNCHANGED <<pdfs, env, today, clock, fs, pc, call, raised, readback>>

\* the caller takes its result and is free for its next operation
Return(p) ==
    /\ pc[p] = "done"
    /\ pc' = [pc EXCEPT ![p] = "idle"]
    /\ call' = [call EXCEPT ![p] = NoCall]
    /\ loc' = [loc EXCEPT ![p] = NoLoc]
    /\ ret' = [ret EXCEPT ![p] = NoRet]
    /\ raised' = [raised EXCEPT ![p] = FALSE]
    /\ UNCHANGED <<pdfs, env, demo_cases, today, clock, fs, readback>>

\* a second passes
Tick ==
    /\ clock < MaxClock
    /\ clock' = clock + 1
    /\ UNCHANGED <<pdfs, env, demo_cases, today, fs, pc, call, loc, ret, raised, readback>>

\* the disk runs full
DiskFills ==
    /\ ~env.full
    /\ env' = [env EXCEPT !.full = TRUE]
    /\ UNCHANGED <<pdfs, demo_cases, today, clock, fs, pc, call, loc, ret, raised, readback>>

\* the file save_cause_list_csv returned is read back with csv.DictReader
ReadBack(p) ==
    /\ pc[p] = "done"
    /\ call[p].op = "save_cause_list_csv"
    /\ ret[p] # NoFile
    /\ ~readback.done
    /\ LET r == DictReader(fs[ret[p]].data)
       IN  readback' = [done |-> TRUE, fieldnames |-> r.fieldnames, rows |-> r.rows,
                        surplus |-> r.surplus]
    /\ UNCHANGED <<pdfs, env, demo_cases, today, clock, fs, pc, call, loc, ret, raised>>

-----------------------------------------------------------------------------
(* Specifications *)

\* One caller at a time: the scraper's methods called directly (as the test
\* and demo scripts do) and the two POST endpoints.
Next ==
    \/ \E c \in CnrInputs : CallSearchByCnr(1, c)
    \/ \E ct \in CaseTypeInputs, cn \in CaseNumberInputs, y \in YearInputs :
          CallSearchByDetails(1, ct, cn, y)
    \/ \E c \in CourtCodes, d \in DateInputs : CallGetCauseList(1, c, d)
    \/ \E b \in SearchBodies : WebSearch(1, b)
    \/ \E b \in CauseBodies : WebCauseList(1, b)
    \/ CsvOpen(1)
    \/ CsvClose(1)
    \/ Return(1)
    \/ Tick

Spec == Init /\ [][Next]_vars

\* Two callers at once that write files: two runs of the command line, two
\* requests to POST /causelist, or direct calls of save_cause_list_csv.
CliCnrInputs == {PyNone, Str("DLCT01-123456-2023")}

InitFiles == Init /\ today = DaysFromCivil(2025, 10, 20)

NextFiles ==
    \/ \E p \in Procs, c \in CliCnrInputs, cl \in BOOLEAN, cc \in CourtCodes,
          d \in OutputDirs :
          MainStart(p, c, PyNone, PyNone, PyNone, cl, cc, d)
    \/ \E p \in Procs, b \in {x \in CauseBodies : x.date = PyNone} :
          WebCauseList(p, b)
    \/ \E p \in Procs : SaveCsvStart(p, get_cause_list(Str("01"), PyNone).val, TestCsvPath)
    \/ \E p \in Procs : CsvOpen(p)
    \/ \E p \in Procs : CsvClose(p)
    \/ \E p \in Procs : JsonOpen(p)
    \/ \E p \in Procs : JsonClose(p)
    \/ Tick

SpecFiles == InitFiles /\ [][NextFiles]_vars


\* The CSV round trip: save_cause_list_csv called on a list of rows, and the
\* file read back.  Cells are None or strings, among them the empty string
\* and strings with the characters the csv module quotes.
CsvCells == {PyNone, Str(""), Str("a"), StrOf(<<"b", ",", "\"", "\r", "\n">>)}

CsvRows ==
    {<<>>, << <<",", Str("a")>> >>}
    \cup {<< <<"s", v>> >> : v \in CsvCells}
    \cup {<< <<"s", v>>, <<"c", w>> >> : v \in CsvCells, w \in CsvCells}
    \cup {<< <<"c", Str("a")>>, <<"s", w>> >> : w \in {Str(""), Str("a")}}

RECURSIVE RowLists(_)
\* the lists of n rows
RowLists(n) ==
    IF n = 0 THEN {<<>>}
    ELSE {Append(l, r) : l \in RowLists(n - 1), r \in CsvRows}

CsvInputs == UNION {RowLists(n) : n \in 1..MaxRows}

NextCsv ==
    \/ pc[1] = "idle" /\ \E rows \in CsvInputs : SaveCsvStart(1, rows, TestCsvPath)
    \/ CsvOpen(1)
    \/ CsvClose(1)
    \/ ReadBack(1)

SpecCsv == InitFiles /\ [][NextCsv]_vars

\* The writers where writing can fail: one caller after another calls
\* save_cause_list_csv and save_results directly, runs main, or requests
\* POST /causelist, in a file system in which the output directory may be
\* missing, a target may be read-only, and the disk may run full.
OneRow == << <<"s", Str("a")>> >>
WiderRow == << <<"s", Str("a")>>, <<"c", Str("a")>> >>
WriteRowInputs == {<<OneRow>>, <<OneRow, OneRow>>, <<OneRow, WiderRow>>}

WriteDataInputs ==
    {[WithKey(NoResults, "cause_list") EXCEPT !.cause_list = <<OneRow>>]}

WriteEnvs ==
    {[dirs |-> d, denied |-> x, full |-> FALSE] :
        d \in {{""}, {"", "output"}},
        x \in {{}, {TestCsvPath, TestJsonPath}, {CliJsonPath("output")}}}

InitWrite == Start /\ today = DaysFromCivil(2025, 10, 20) /\ env \in WriteEnvs

NextWrite ==
    \/ \E rows \in WriteRowInputs, f \in {TestCsvPath, CliCsvPath("output")} :
          SaveCsvStart(1, rows, f)
    \/ \E d \in WriteDataInputs, f \in {TestJsonPath, CliJsonPath("output")} :
          SaveResultsStart(1, d, f)
    \/ \E c \in CliCnrInputs, cl \in BOOLEAN :
          MainStart(1, c, PyNone, PyNone, PyNone, cl, Str("01"), "output")
    \/ WebCauseList(1, [is_object |-> TRUE, court_code |-> Str("01"), date |-> PyNone])
    \/ CsvOpen(1)
    \/ CsvClose(1)
    \/ JsonOpen(1)
    \/ JsonClose(1)
    \/ Return(1)
    \/ DiskFills

SpecWrite == InitWrite /\ [][NextWrite]_vars

\* Two callers of one scraper object that call its data-returning methods
\* one after another, in any order.
NextCalls ==
    \/ \E p \in Procs : CallGetCourtList(p)
    \/ \E p \in Procs, c \in CnrInputs : CallSearchByCnr(p, c)
    \/ \E p \in Procs, ct \in CaseTypeInputs, cn \in CaseNumberInputs,
          y \in YearInputs : CallSearchByDetails(p, ct, cn, y)
    \/ \E p \in Procs, c \in CourtCodes, d \in DateInputs : CallGetCauseList(p, c, d)
    \/ \E p \in Procs : Return(p)

SpecCalls == Init /\ [][NextCalls]_vars

\* Two callers of one scraper object that search and assign to the records
\* they are returned.
AliasCnrInputs == {Str("DLCT01-123456-2023"), Str("MHMC02-654321-2022"),
                   Str("TEST123456789")}

NextAlias ==
    \/ \E p \in Procs, c \in AliasCnrInputs : CallSearchByCnr(p, c)
    \/ \E p \in Procs : CallSearchByDetails(p, Str("Civil"), Str("12345"), Str("2023"))
    \/ \E p \in Procs : Modify(p)
    \/ \E p \in Procs : Return(p)

SpecAlias == Init /\ [][NextAlias]_vars

\* Runs of the command line one after another: with or without --cnr (of a
\* demo case or not), with none, one or all of --case-type, --case-number and
\* --year, with or without --causelist, into either output directory.
CliSearchInputs ==
    {<<c, d[1], d[2], d[3]>> :
        c \in {PyNone, Str(""), Str("TEST123456789"), Str("DLCT01-123456-2023")},
        d \in {<<PyNone, PyNone, PyNone>>, <<Str("Civil"), PyNone, PyNone>>,
               <<Str("Civil"), Str("12345"), Str("")>>,
               <<Str("Civil"), Str("12345"), Str("2023")>>}}

NextCli ==
    \/ \E a \in CliSearchInputs, cl \in BOOLEAN, d \in OutputDirs :
          MainStart(1, a[1], a[2], a[3], a[4], cl, Str("01"), d)
    \/ CsvOpen(1)
    \/ CsvClose(1)
    \/ JsonOpen(1)
    \/ JsonClose(1)
    \/ Return(1)

SpecCli == InitFiles /\ [][NextCli]_vars

\* The web service alone, serving two clients: POST /causelist writes CSV
\* files and GET /download/<filename> is asked for the names of such files,
\* of a file of the program and of a file that does not exist.
DownloadNames ==
    {StampedCsvPath(t) : t \in 0..MaxClock} \cup {SourcePath, TestCsvPath}

NextWeb ==
    \/ \E p \in Procs :
          WebCauseList(p, [is_object |-> TRUE, court_code |-> Str("01"), date |-> PyNone])
    \/ \E p \in Procs, path \in DownloadNames : WebDownload(p, path)
    \/ \E p \in Procs : CsvOpen(p)
    \/ \E p \in Procs : CsvClose(p)
    \/ \E p \in Procs : Return(p)
    \/ Tick

SpecWeb == InitFiles /\ [][NextWeb]_vars

\* download_case_pdf called with every case_id of up to MaxIdLen characters
\* out of letters, digits, "_", "-" and the path characters "/" and ".",
\* into the default and the test's directory, existing or not, on a disk
\* that may run full.
IdChars == {"A", "7", "_", "-", "/", "."}
CaseIds == UNION {[1..n -> IdChars] : n \in 0..MaxIdLen}
PdfDirs == {"downloads", "test_downloads"}
PdfEnvs ==
    {[dirs |-> d, denied |-> {}, full |-> FALSE] : d \in {{""}, {"", "test_downloads"}}}

InitPdf == Start /\ today = DaysFromCivil(2025, 10, 20) /\ env \in PdfEnvs

NextPdf ==
    \/ \E id \in CaseIds, d \in PdfDirs : PdfDownload(1, id, d)
    \/ PdfCleanUp(1)
    \/ DiskFills

SpecPdf == InitPdf /\ [][NextPdf]_vars

-----------------------------------------------------------------------------
(* Claims *)

\* caller p has the value of a direct call of the scraper method `op`
Returned(p, op) == pc[p] = "done" /\ call[p].op = op

\* caller p holds a case record returned by one of the two searches
ReturnedCase(p) ==
    /\ pc[p] = "done"
    /\ call[p].op \in {"search_case_by_cnr", "search_case_by_details"}
    /\ DictTruthy(ret[p])

\* caller p has the response of one of the two POST endpoints
Responded(p) == pc[p] = "done" /\ call[p].op \in {"web_search", "web_causelist"}

\* C1: for every CNR that is a key of the demo dataset, search_case_by_cnr
\* returns a case record whose cnr field equals the CNR asked for.
C1_CnrSearchReturnsThatCase ==
    \A p \in Procs :
        (Returned(p, "search_case_by_cnr") /\ InCases(DemoCases, call[p].cnr))
        => ("cnr" \in DOMAIN ret[p] /\ ret[p].cnr = call[p].cnr.s[1])

C1_Witness ==
    \E p \in Procs :
        /\ Returned(p, "search_case_by_cnr")
        /\ call[p].cnr = Str("MHMC02-654321-2022")
        /\ DictTruthy(ret[p])
        /\ ret[p].cnr = "MHMC02-654321-2022"

\* C2: for every CNR absent from the demo dataset, search_case_by_cnr returns
\* a not-found outcome that is neither the outcome of a failed lookup nor an
\* empty record returned as a success.
C2_NotFoundIsItsOwnOutcome ==
    \A p \in Procs :
        (/\ Returned(p, "search_case_by_cnr")
         /\ Hashable(call[p].cnr)
         /\ ~InCases(DemoCases, call[p].cnr))
        => (/\ ret[p] # search_case_by_cnr(demo_cases, PyList).val
            /\ ret[p] # EmptyDict)

\* the dates written in the case records
ParseDate(d) ==
    CASE d = "2025-10-15" -> DaysFromCivil(2025, 10, 15)
      [] d = "2025-10-16" -> DaysFromCivil(2025, 10, 16)
      [] d = "2025-10-20" -> DaysFromCivil(2025, 10, 20)
      [] d = "2025-10-21" -> DaysFromCivil(2025, 10, 21)
      [] d = "2025-10-22" -> DaysFromCivil(2025, 10, 22)
      [] d = "2023-10-21" -> DaysFromCivil(2023, 10, 21)

\* the flags of a case record are those of the date as_of
FlagsMatch(rec, as_of) ==
    /\ rec.is_listed_today <=> (ParseDate(rec.next_hearing) = as_of)
    /\ rec.is_listed_tomorrow <=> (ParseDate(rec.next_hearing) = as_of + 1)

\* From the day before the earliest next_hearing of the demo cases to the
\* latest: on any other date every flag would have to be false.
AsOfDates == DaysFromCivil(2025, 10, 14)..DaysFromCivil(2025, 10, 22)

\* C3: a returned case record is listed today iff its next hearing is on the
\* date of the search and listed tomorrow iff it is on the day after; and one
\* date fits all the demo cases at once.
C3_FlagsFollowTheDate ==
    \A p \in Procs :
        ReturnedCase(p)
        => (/\ FlagsMatch(ret[p], today)
            /\ \E d \in AsOfDates :
                  \A k \in DOMAIN demo_cases : FlagsMatch(demo_cases[k], d))

\* C4: no case record a search returns (directly, or as the data of
\* POST /search) is listed both today and tomorrow.
C4_NeverTodayAndTomorrow ==
    \A p \in Procs :
        /\ ReturnedCase(p)
           => ~(ret[p].is_listed_today /\ ret[p].is_listed_tomorrow)
        /\ (Returned(p, "web_search") /\ "data" \in ret[p].keys)
           => ~(ret[p].data.is_listed_today /\ ret[p].data.is_listed_tomorrow)

C4_Witness ==
    \E p \in Procs :
        /\ Returned(p, "search_case_by_details")
        /\ call[p].case_type = Str("")
        /\ ret[p].is_listed_tomorrow
        /\ ~ret[p].is_listed_today

\* C5: a failure raised inside search_case_by_cnr, search_case_by_details or
\* get_cause_list is never returned as the empty result that a lookup
\* matching nothing returns.
C5_FailureIsNotAnEmptyResult ==
    \A p \in Procs :
        (/\ pc[p] = "done"
         /\ call[p].op \in {"search_case_by_cnr", "search_case_by_details",
                            "get_cause_list"}
         /\ raised[p])
        => ret[p] # (IF call[p].op = "get_cause_list" THEN <<>> ELSE EmptyDict)

\* C6: when the scraper operation behind POST /search or POST /causelist
\* fails, the response has an HTTP error status.
C6_FailureIsAnHttpError ==
    \A p \in Procs : (Responded(p) /\ raised[p]) => ret[p].status # 200

\* a body with a boolean success and data or message to go with it
Envelope(r) ==
    /\ "success" \in r.keys
    /\ r.success => "data" \in r.keys
    /\ ~r.success => "message" \in r.keys

\* C7 as stated: every response of POST /search and POST /causelist, on every
\* path, carries success with data or message.
C7_EveryResponseIsAnEnvelope ==
    \A p \in Procs : Responded(p) => Envelope(ret[p])

\* C7, amended: every HTTP 200 response of POST /search and POST /causelist
\* carries success with data or message; the responses to missing or invalid
\* input (400) and to an exception (500) carry an error member only.
C7_OkResponseIsAnEnvelope ==
    \A p \in Procs :
        Responded(p)
        => (/\ ret[p].status = 200 => Envelope(ret[p])
            /\ ret[p].status # 200 => ret[p].keys = {"error"}
            /\ ret[p].status \in {200, 400, 500})

C7_Witness ==
    \E p \in Procs :
        /\ Returned(p, "web_search")
        /\ call[p].cnr = Str("TEST123456789")
        /\ ret[p].status = 200
        /\ ~ret[p].success
        /\ ret[p].message = "Case not found"


\* caller p fetches a cause list and saves it as CSV: a run of main with
\* --causelist, or a request to POST /causelist
FetchesCauseList(p) ==
    \/ call[p].op = "main" /\ call[p].causelist
    \/ call[p].op = "web_causelist" /\ call[p].is_object

\* the court code of the fetch (POST /causelist defaults it to '01')
CourtOf(p) ==
    IF call[p].court_code = PyNone THEN Str("01") ELSE call[p].court_code

\* save_cause_list_csv has returned to caller p
CsvSaved(p) ==
    /\ FetchesCauseList(p)
    /\ pc[p] \in {"json_open", "json_close", "done"}

\* C8: two concurrent cause-list fetches for different court codes each end
\* with an output file of their own.
C8_FetchesHaveTheirOwnFiles ==
    \A p, q \in Procs :
        (/\ p # q
         /\ CsvSaved(p) /\ CsvSaved(q)
         /\ CourtOf(p) # CourtOf(q))
        => loc[p].csv_file # loc[q].csv_file

\* the files caller p writes in its operation
Targets(p) ==
    (IF call[p].op = "main" /\ call[p].causelist
     THEN {CliCsvPath(call[p].output_dir)} ELSE {})
    \cup (IF call[p].op = "main" /\ loc[p].results.keys # <<>>
          THEN {CliJsonPath(call[p].output_dir)} ELSE {})
    \cup (IF call[p].op \in {"web_causelist", "save_cause_list_csv"}
             /\ pc[p] \in {"csv_open", "csv_close", "done"}
          THEN {loc[p].filename} \ {NoFile} ELSE {})

\* what caller p writes to the file `path` when its write is complete
CompleteOutput(p, path) ==
    IF path.name = "results.json" THEN JsonDump(loc[p].results)
    ELSE CsvWrite(loc[p].cause_list).text

\* C9: a file that two concurrent writers write is at every moment either
\* absent or the complete output of one of them.
C9_SharedFileIsAbsentOrComplete ==
    \A path \in AllPaths :
        (/\ fs[path].exists
         /\ \E p, q \in Procs : p # q /\ path \in Targets(p) \cap Targets(q))
        => \E p \in Procs :
              /\ path \in Targets(p)
              /\ path.name = "results.json" => pc[p] \in {"json_open", "json_close", "done"}
              /\ fs[path].data = CompleteOutput(p, path)

\* the rows written, and read back
Written == call[1].rows

SameFields(rows) == \A i \in 1..Len(rows) : RowKeySet(rows[i]) = RowKeySet(rows[1])

\* the dict read back for a row equals the row
SameDict(back, row) ==
    /\ Len(back) = Len(row)
    /\ \A i \in 1..Len(row) :
          \E j \in 1..Len(back) :
              back[j][1] = KeyText(row[i][1]) /\ back[j][2] = row[i][2]

\* the rows read back are the rows written, in their order, under a header
\* of the field names
RoundTrip(rows) ==
    /\ readback.fieldnames = [i \in 1..Len(rows[1]) |-> KeyText(rows[1][i][1])]
    /\ Len(readback.rows) = Len(rows)
    /\ ~readback.surplus
    /\ \A i \in 1..Len(rows) :
          i <= Len(readback.rows) => SameDict(readback.rows[i], rows[i])

\* C10 as stated: every non-empty cause list whose rows all have the same
\* fields is read back from its CSV file as it was written.
C10_RoundTripOfAnyRows ==
    (readback.done /\ SameFields(Written)) => RoundTrip(Written)

AllStrings(rows) ==
    \A i \in 1..Len(rows) : \A j \in 1..Len(rows[i]) : rows[i][j][2].t = "str"

\* C10, amended: every non-empty cause list whose rows all have the same
\* fields, at least one field, and only strings as values is read back from
\* its CSV file as it was written.
C10_RoundTripOfStringRows ==
    (/\ readback.done
     /\ SameFields(Written)
     /\ Written[1] # <<>>
     /\ AllStrings(Written))
    => RoundTrip(Written)

C10_Witness ==
    /\ readback.done
    /\ Len(Written) = 2
    /\ Written[1] = << <<"s", Str("")>>, <<"c", StrOf(<<"b", ",", "\"", "\r", "\n">>)>> >>
    /\ Written[2] = << <<"c", Str("a")>>, <<"s", Str("")>> >>
    /\ RoundTrip(Written)

\* a row after the first has a field that the first row lacks
HasExtraField(rows) ==
    \E i \in 2..Len(rows) : ~(RowKeySet(rows[i]) \subseteq RowKeySet(rows[1]))

\* the records of the file at `path`, the header among them
RecordsIn(path) == NonBlank(CsvReader(fs[path].data))

\* C11: save_cause_list_csv does not fail on a cause list in which a row
\* after the first has a field the first row lacks: it returns the filename
\* and the file holds the header and every row.
C11_ExtraFieldIsWritten ==
    (Returned(1, "save_cause_list_csv") /\ HasExtraField(Written))
    => (/\ ret[1] = TestCsvPath
        /\ Len(RecordsIn(TestCsvPath)) = 1 + Len(Written))

\* caller p has the value of a direct call of one of the two writers
Wrote(p) ==
    /\ pc[p] = "done"
    /\ call[p].op \in {"save_results", "save_cause_list_csv"}
    /\ loc[p].filename # NoFile

\* what the writer called by p writes when nothing goes wrong
FullOutput(p) ==
    IF call[p].op = "save_results" THEN JsonDump(loc[p].results)
    ELSE CsvWrite(loc[p].cause_list).text

\* C12: save_results and save_cause_list_csv create the missing directory
\* of the path themselves: a write to a path whose directory did not exist
\* returns the filename and leaves the complete file there.
C12_WritersMakeDirectories ==
    \A p \in Procs :
        (/\ Wrote(p)
         /\ ~loc[p].had_dir
         /\ loc[p].filename \notin env.denied
         /\ ~env.full
         /\ ~HasExtraField(loc[p].cause_list))
        => (/\ ret[p] = loc[p].filename
            /\ fs[loc[p].filename] = [exists |-> TRUE, data |-> FullOutput(p)])

\* caller p is told that its results were saved: the answer of POST
\* /causelist says success, main ends with exit code 0 and the summary
\* "Results saved: n items" for n > 0
ReportsSaved(p) ==
    CASE call[p].op = "web_causelist" -> ret[p].status = 200 /\ ret[p].success
      [] call[p].op = "main" -> ret[p].exit_code = 0 /\ ret[p].items > 0
      [] OTHER -> FALSE

\* C13: when open() or the close of the JSON or CSV file raises an OSError
\* (permission, disk space), the writer does not return normally with the
\* data dropped, and main and POST /causelist do not report the results as
\* saved.
C13_WriteErrorIsSignalled ==
    \A p \in Procs :
        (pc[p] = "done" /\ loc[p].io_error)
        => (/\ Wrote(p) => ret[p] # NoFile
            /\ ~ReportsSaved(p))

\* C14: a save_results or save_cause_list_csv call that fails leaves at the
\* target path what was there when the call began: the previous content of
\* a file that existed, no file where none was.
C14_FailedWriteLeavesTheFile ==
    \A p \in Procs :
        (Wrote(p) /\ ret[p] = NoFile)
        => fs[loc[p].filename] = loc[p].before

\* C15: a run of main in which an error was raised (in the search, the
\* cause-list fetch or the saving) ends with a non-zero exit code, and a run
\* without one with exit code 0.
C15_ExitCodeTellsOfErrors ==
    \A p \in Procs :
        (pc[p] = "done" /\ call[p].op = "main")
        => (/\ raised[p] => ret[p].exit_code # 0
            /\ (~raised[p] /\ ret[p] # Uncaught) => ret[p].exit_code = 0)

\* C16: a record search_case_by_cnr returned to a caller that has not
\* assigned to it holds the values of the fixture, whatever other callers
\* have done with the records they were returned.
C16_ReturnedRecordsAreFresh ==
    \A q \in Procs :
        (/\ Returned(q, "search_case_by_cnr")
         /\ InCases(DemoCases, call[q].cnr)
         /\ ~loc[q].modified)
        => ret[q] = DemoCases[call[q].cnr.s[1]]

\* what a call returns on a scraper just constructed
FreshResult(c) ==
    CASE c.op = "get_court_list" -> get_court_list.val
      [] c.op = "search_case_by_cnr" -> search_case_by_cnr(DemoCases, c.cnr).val
      [] c.op = "search_case_by_details" ->
           search_case_by_details(c.case_type, c.case_number, c.year).val
      [] c.op = "get_cause_list" -> get_cause_list(c.court_code, c.date).val

\* C17: in any sequence of calls of get_court_list, search_case_by_cnr,
\* search_case_by_details and get_cause_list on one scraper, the scraper's
\* dataset stays as constructed, a call returns what it returns on a fresh
\* scraper, and two calls with the same arguments return equal values.
C17_CallsKeepNoState ==
    /\ demo_cases = DemoCases
    /\ \A p \in Procs :
          pc[p] = "done" => ret[p] = FreshResult(call[p])
    /\ \A p, q \in Procs :
          (pc[p] = "done" /\ pc[q] = "done" /\ call[p] = call[q]) => ret[p] = ret[q]

C17_Witness ==
    /\ pc[1] = "done" /\ pc[2] = "done"
    /\ call[1].op = "search_case_by_cnr" /\ call[1].cnr = Str("KLER03-111222-2021")
    /\ call[2] = call[1]
    /\ ret[2] = DemoCases["KLER03-111222-2021"]

\* caller p ran main and main wrote its results file
WroteResults(p) == Returned(p, "main") /\ loc[p].json_file # NoFile

\* the JSON text has a member named k
HasKey(data, k) == \E i \in 1..(Len(data) - 1) : data[i] = k /\ data[i + 1] = ":"

\* the run was asked for a case search: --cnr, or all three details
SearchRequested(c) ==
    Truthy(c.cnr) \/ (Truthy(c.case_type) /\ Truthy(c.case_number) /\ Truthy(c.year))

\* the search main makes returns a record: the --cnr of a demo case, or,
\* without --cnr, all three details
SearchFinds(c) ==
    IF Truthy(c.cnr) THEN InCases(DemoCases, c.cnr)
    ELSE Truthy(c.case_type) /\ Truthy(c.case_number) /\ Truthy(c.year)

\* C18 as stated: the results file a run of main writes is results.json in
\* the output directory and has the key case_search exactly when a case
\* search was requested and the key cause_list exactly when --causelist was.
C18_KeysAreWhatWasRequested ==
    \A p \in Procs :
        WroteResults(p)
        => LET file == fs[CliJsonPath(call[p].output_dir)]
           IN  /\ loc[p].json_file = CliJsonPath(call[p].output_dir)
               /\ file.exists
               /\ HasKey(file.data, "case_search") <=> SearchRequested(call[p])
               /\ HasKey(file.data, "cause_list") <=> call[p].causelist

\* C18, amended: the results file a run of main writes is results.json in
\* the output directory; it has the key case_search exactly when the search
\* the run made returned a record and the key cause_list exactly when
\* --causelist was given; and the run writes it exactly when it has one of
\* the two keys to put in it.
C18_KeysAreWhatWasFound ==
    \A p \in Procs :
        Returned(p, "main")
        => (/\ WroteResults(p) <=> (SearchFinds(call[p]) \/ call[p].causelist)
            /\ WroteResults(p)
               => LET file == fs[CliJsonPath(call[p].output_dir)]
                  IN  /\ loc[p].json_file = CliJsonPath(call[p].output_dir)
                      /\ file.exists
                      /\ HasKey(file.data, "case_search") <=> SearchFinds(call[p])
                      /\ HasKey(file.data, "cause_list") <=> call[p].causelist)

C18_Witness ==
    /\ WroteResults(1)
    /\ call[1].cnr = Str("TEST123456789")
    /\ call[1].case_type = Str("Civil") /\ call[1].year = Str("2023")
    /\ call[1].causelist
    /\ call[1].output_dir = "test_output"
    /\ HasKey(fs[CliJsonPath("test_output")].data, "cause_list")
    /\ ~HasKey(fs[CliJsonPath("test_output")].data, "case_search")

\* the files POST /causelist has written (the service writes no other file,
\* and a file it wrote stays)
WrittenByService(path) ==
    path \in {StampedCsvPath(t) : t \in 0..MaxClock} /\ fs[path].exists

\* C19: GET /download/<filename> answers with content only for a file the
\* service wrote, and a filename that POST /causelist returned is answered
\* with the content of that file.
C19_OnlyWrittenFilesAreServed ==
    \A p \in Procs :
        /\ (Returned(p, "web_download") /\ ret[p].status = 200)
           => WrittenByService(call[p].filename)
        /\ \A q \in Procs :
              (/\ Returned(p, "web_download")
               /\ Returned(q, "web_causelist")
               /\ ret[q].status = 200 /\ ret[q].success
               /\ call[p].filename = ret[q].filename)
              => /\ ret[p].status = 200
                 /\ ret[p].content = fs[ret[q].filename].data

\* C20: search_case_by_details called with three empty strings returns an
\* empty (falsy) result.
C20_EmptyDetailsFindNothing ==
    \A p \in Procs :
        (/\ Returned(p, "search_case_by_details")
         /\ call[p].case_type = Str("")
         /\ call[p].case_number = Str("")
         /\ call[p].year = Str(""))
        => ~DictTruthy(ret[p])

\* the number a serial_number text stands for (-1: not a number of the list)
SerialValue(v) ==
    CASE v = Str("1") -> 1
      [] v = Str("2") -> 2
      [] v = Str("3") -> 3
      [] v = Str("4") -> 4
      [] v = Str("5") -> 5
      [] OTHER -> -1

SerialOf(rows, i) == RowGet(rows[i], "serial_number")

\* C21: in every cause list get_cause_list returns, the serial numbers are
\* pairwise distinct and the rows come in increasing serial-number order.
C21_SerialNumbersRise ==
    \A p \in Procs :
        Returned(p, "get_cause_list")
        => \A i, j \in 1..Len(ret[p]) :
              i < j => /\ SerialOf(ret[p], i) # SerialOf(ret[p], j)
                       /\ SerialValue(SerialOf(ret[p], i)) >= 1
                       /\ SerialValue(SerialOf(ret[p], i))
                            < SerialValue(SerialOf(ret[p], j))

C21_Witness ==
    /\ Returned(1, "get_cause_list")
    /\ call[1].court_code = Str("02")
    /\ call[1].date = Str("20/10/2025")
    /\ Len(ret[1]) = 5
    /\ SerialValue(SerialOf(ret[1], 5)) = 5

\* C22: while the dataset is the fixture set, the CNR search for
\* "DLCT01-123456-2023" returns a record with court_name "Delhi High Court",
\* status "Pending" and serial_number "1".
C22_DelhiCaseIsFound ==
    \A p \in Procs :
        (/\ Returned(p, "search_case_by_cnr")
         /\ call[p].cnr = Str("DLCT01-123456-2023")
         /\ demo_cases = DemoCases)
        => /\ DictTruthy(ret[p])
           /\ ret[p].court_name = "Delhi High Court"
           /\ ret[p].status = "Pending"
           /\ ret[p].serial_number = "1"

C22_Witness ==
    /\ Returned(2, "search_case_by_cnr")
    /\ call[2].cnr = Str("DLCT01-123456-2023")
    /\ demo_cases = DemoCases
    /\ ret[2].court_name = "Delhi High Court"
    /\ Returned(1, "search_case_by_details")
    /\ loc[1].modified

\* C23: POST /search with a JSON object answers 400 and calls no search
\* when search_type is 'cnr' and cnr is missing or empty, when it is
\* 'details' and one of case_type, case_number, year is missing or empty,
\* and when it is anything else; otherwise it calls exactly one search, the
\* one search_type names.  With a body that is no object it calls none.
C23_SearchNeedsCompleteInput ==
    \A p \in Procs :
        Returned(p, "web_search")
        => IF ~call[p].is_object THEN loc[p].calls = <<>>
           ELSE IF call[p].search_type = Str("cnr") /\ Truthy(call[p].cnr)
           THEN loc[p].calls = <<"search_case_by_cnr">> /\ ret[p].status # 400
           ELSE IF /\ call[p].search_type = Str("details")
                   /\ Truthy(call[p].case_type)
                   /\ Truthy(call[p].case_number)
                   /\ Truthy(call[p].year)
           THEN loc[p].calls = <<"search_case_by_details">> /\ ret[p].status # 400
           ELSE loc[p].calls = <<>> /\ ret[p].status = 400

C23_Witness ==
    /\ Returned(1, "web_search")
    /\ call[1].search_type = Str("details")
    /\ call[1].case_type = Str("Civil")
    /\ call[1].case_number = Str("12345")
    /\ call[1].year = Str("")
    /\ ret[1].status = 400
    /\ loc[1].calls = <<>>

\* the case searches among the calls made
SearchesMade(made) ==
    SelectSeq(made, LAMBDA m : m \in {"search_case_by_cnr", "search_case_by_details"})

\* C24: a run of main makes at most one case search: the CNR search when
\* --cnr is given (a non-empty value), whatever the detail options and
\* whether or not the case is found; the details search only when --cnr is
\* not given and all three detail options are.  It fetches the cause list
\* exactly when --causelist is given, after any case search, and it writes
\* results.json exactly when it produced at least one result item.
C24_OneSearchThenCauseList ==
    \A p \in Procs :
        Returned(p, "main")
        => LET made == loc[p].calls
               c == call[p]
               details == Truthy(c.case_type) /\ Truthy(c.case_number) /\ Truthy(c.year)
           IN  /\ Len(SearchesMade(made)) <= 1
               /\ Truthy(c.cnr) => SearchesMade(made) = <<"search_case_by_cnr">>
               /\ Calls(made, "search_case_by_details") <=> (~Truthy(c.cnr) /\ details)
               /\ Calls(made, "get_cause_list") <=> c.causelist
               /\ c.causelist => made[Len(made)] = "get_cause_list"
               /\ Len(SelectSeq(made, LAMBDA m : m = "get_cause_list")) <= 1
               /\ WroteResults(p) <=> loc[p].results.keys # <<>>
               /\ WroteResults(p) => fs[CliJsonPath(c.output_dir)].exists

C24_Witness ==
    /\ Returned(1, "main")
    /\ call[1].cnr = Str("TEST123456789")
    /\ call[1].case_type = Str("Civil")
    /\ call[1].case_number = Str("12345")
    /\ call[1].year = Str("2023")
    /\ call[1].causelist
    /\ loc[1].calls = <<"search_case_by_cnr", "get_cause_list">>
    /\ WroteResults(1)

\* the name is 'case_' + an id of letters, digits, '_' and '-' + '.pdf'
SafeName(name) ==
    /\ Len(name) >= 2
    /\ name[1] = "case_"
    /\ name[Len(name)] = ".pdf"
    /\ \A i \in 2..(Len(name) - 1) : name[i] \in SafeChars

\* C25: every file download_case_pdf writes lies directly inside the
\* output_dir of the call, under the name 'case_' + sanitized id + '.pdf'
\* whose id has only letters, digits, '_' and '-'; a path it returns names
\* an existing file with the whole content, and it returns the empty
\* string exactly when a step of it failed.
C25_PdfStaysInOutputDir ==
    \A p \in Procs :
        Returned(p, "download_case_pdf")
        => /\ \A f \in pdfs :
                 /\ f.dir = call[p].output_dir
                 /\ ~HasSeparator(f.name)
                 /\ SafeName(f.name)
           /\ ret[p] # NoPdf
              => /\ ret[p].dir = call[p].output_dir
                 /\ SafeName(ret[p].name)
                 /\ [dir |-> ret[p].dir, name |-> ret[p].name, data |-> PdfContent]
                      \in pdfs
           /\ (ret[p] = NoPdf) <=> loc[p].io_error

C25_Witness ==
    /\ Returned(1, "download_case_pdf")
    /\ call[1].case_id = <<".", ".", "/">>
    /\ call[1].output_dir = "downloads"
    /\ ret[1] = [dir |-> "downloads", name |-> <<"case_", "_", ".pdf">>]
    /\ pdfs # {}

\* some two (court, date) combinations have different cause lists
ArgumentsSelect ==
    \E c1, c2 \in CourtCodes, d1, d2 \in DateInputs :
        get_cause_list(c1, d1).val # get_cause_list(c2, d2).val

\* C26: the cause list get_cause_list returns is selected by its arguments:
\* two calls with different court codes or dates are not forced to return
\* the same rows (if these two return the same, some other two do not).
C26_CauseListIsOfCourtAndDate ==
    \A p, q \in Procs :
        (/\ Returned(p, "get_cause_list")
         /\ Returned(q, "get_cause_list")
         /\ <<call[p].court_code, call[p].date>> # <<call[q].court_code, call[q].date>>)
        => (ret[p] # ret[q] \/ ArgumentsSelect)

====
